---- MODULE Spec2Model ----
(***************************************************************************)
(* The storage-backend contract (storage/src/storage_backend.rs), its GC   *)
(* extension, and the read-only IPC context protocol                        *)
(* (tezos/new_context/src/kv_store/readonly_ipc.rs).                        *)
(*                                                                         *)
(* Two groups of state share the module:                                    *)
(*   - the writer's backend: store, reused-key set, cycle, deferred sweep   *)
(*     and stats accounting (SpecGC, SpecContract, SpecBatch, SpecSweep,    *)
(*     SpecStats);                                                          *)
(*   - the IPC layer: listener, per-connection workers, channels and the    *)
(*     reader's caller threads (Spec, SpecShared, SpecLive, SpecOne,        *)
(*     SpecProxy), and a reader's try_connect (SpecDial).                   *)
(* SpecOptOut, SpecStatsOps, SpecReadGC and SpecServeGC put the engines     *)
(* without GC, every stats operation, and reads served next to a            *)
(* collecting writer under check.                                           *)
(***************************************************************************)
EXTENDS Integers, Sequences, FiniteSets, TLC

\* ------------------------------------------------------------------ bounds
MaxCycles == 2
MaxConns == 2
MaxThreads == 2
MaxCalls == 2
MaxBatch == 2
\* Batch length where the batch is an input among others.
MaxShortBatch == 1
\* Largest value of a stats field: usize, narrowed.
MaxUsize == 3

\* ------------------------------------------------------- program constants
\* IpcContextClient::TIMEOUT and IpcContextListener::IO_TIMEOUT, in seconds.
TIMEOUT_SECS == 30
IO_TIMEOUT_SECS == 10

\* ------------------------------------------------------------ value spaces
Keys == {"h1", "h2"}
Values == {"v1", "v2"}
None == "None"
Stores == [Keys -> Values \cup {None}]
EmptyStore == [k \in Keys |-> None]
\* Content addressing: the one value a hash can address.
ContentOf(k) == IF k = "h1" THEN "v1" ELSE "v2"
ContentStores == {s \in Stores : \A k \in Keys : s[k] \in {None, ContentOf(k)}}
Conns == 1..MaxConns
Threads == 1..MaxThreads

VARIABLES
    \* writer's backend
    gcCapable,   \* TRUE: an engine that implements the GC extension
    store,       \* EntryHash -> ContextValue, None when absent
    reused,      \* reused-key set of the current cycle
    cycle,       \* number of start_new_cycle calls so far
    marked,      \* history: keys mark_reused was called on in this cycle
    markedPrev,  \* history: keys mark_reused was called on in earlier cycles
    last,        \* history: the last backend operation and what it saw
    written,     \* history: keys a put, put_batch or merge has written
    sweep,       \* deferred reclamation: "idle", "pending", "running"
    waiting,     \* a caller is blocked in wait_for_gc_finish
    stats,       \* a StorageBackendStats computation: operands and result
    \* writer's IPC server
    indexOk,     \* get_context_index() yields the index (else unwrap panics)
    listening,   \* handle_incoming_connections is in its accept loop
    worker,      \* per connection: the thread running process_context_requests
    shutdownSeen,\* history: some worker has ended on a ShutdownCall
    bornAfter,   \* history: the worker was spawned after such an end
    \* channels
    reqQ,        \* per connection: requests in flight, reader -> writer
    respQ,       \* per connection: responses in flight, writer -> reader
    \* reader's IpcContextClient
    shared,      \* TRUE: caller threads share clients (unsafe impl Sync)
    client,      \* per connection: "none", "open", "closed", "refused"
    borrow,      \* per connection: the RefCell borrow flag of client.io
    shutSent,    \* per connection: a ShutdownCall was sent on it
    outstanding, \* history: ids of the requests sent on it and not yet answered
    ncalls,      \* calls started so far (the next call's id)
    \* reader's caller threads
    tpc,         \* "idle", "send", "recv", "panicked"
    tconn,       \* the client the call runs on
    attempts,    \* receive attempts that timed out in the running call
    result,      \* the thread's running or last call and what it returned
    \* reader's connection attempt
    dial         \* a try_connect call: its position, its loop and its outcome

backendVars == <<gcCapable, store, reused, cycle, marked, markedPrev, last,
                 written, sweep, waiting, stats>>
serverVars == <<indexOk, listening, worker, shutdownSeen, bornAfter>>
chanVars == <<reqQ, respQ>>
clientVars == <<shared, client, borrow, shutSent, outstanding, ncalls>>
threadVars == <<tpc, tconn, attempts, result>>
ipcVars == <<serverVars, chanVars, clientVars, threadVars, dial>>

vars == <<backendVars, ipcVars>>

StoredKeys(s) == {k \in Keys : s[k] # None}

NoOp == [op |-> "init", key |-> None, keep |-> {}, before |-> EmptyStore, ret |-> None]

Op(o, k, keep, ret) ==
    [op |-> o, key |-> k, keep |-> keep, before |-> store, ret |-> ret]

\* ------------------------------------------------------- backend contract
\* A get that answered an absent key with a default value.
GetValueDefaults(s, k) == IF s[k] = None THEN "v1" ELSE s[k]

\* get(key): the stored value or none.
GetValue(s, k) == s[k]

\* contains(key): existence check.
ContainsKey(s, k) == s[k] # None

\* A put that left an entry already present as it was.
PutValueKeepsOld(s, k, v) == IF s[k] # None THEN s ELSE [s EXCEPT ![k] = v]

\* put(key, value): inserts or overwrites.
PutValue(s, k, v) == [s EXCEPT ![k] = v]

\* merge(key, value): the engine's combine of value with what key holds; on
\* an absent key the entry is the value itself.
MergeValue(s, k, v, combined) == [s EXCEPT ![k] = IF s[k] = None THEN v ELSE combined]

\* delete(key): removes the entry.
DeleteKey(s, k) == [s EXCEPT ![k] = None]

\* Vec<(EntryHash, ContextValue)> of up to n entries.
BatchesUpTo(n) == UNION {[1..m -> Keys \X Values] : m \in 0..n}
Batches == BatchesUpTo(MaxBatch)
ShortBatches == BatchesUpTo(MaxShortBatch)

\* The loop of put_batch from entry i on; failAt is the entry whose put
\* returns Err (0: none): `?` returns it and the loop is left.
RECURSIVE PutBatchFrom(_, _, _, _)
PutBatchFrom(s, batch, failAt, i) ==
    IF i > Len(batch) THEN [store |-> s, ret |-> "ok", applied |-> Len(batch)]
    ELSE IF i = failAt THEN [store |-> s, ret |-> "error", applied |-> i - 1]
    ELSE PutBatchFrom(PutValue(s, batch[i][1], batch[i][2]), batch, failAt, i + 1)

\* A put_batch that applied all of its entries or none.
AtomicPutBatch(s, batch, failAt) ==
    IF failAt = 0 THEN PutBatchFrom(s, batch, 0, 1)
    ELSE [store |-> s, ret |-> "error", applied |-> 0]

\* The trait's default put_batch.
DefaultPutBatch(s, batch, failAt) == PutBatchFrom(s, batch, failAt, 1)

\* --------------------------------------------------------- GC extension
\* A default retain that swept whatever is not reused (keep_set ignored).
DefaultRetainSweeps(s, keep, r) == [k \in Keys |-> IF k \in r THEN s[k] ELSE None]

\* A default mark_reused that recorded the key.
DefaultMarkReusedRecords(r, k) == r \cup {k}

\* The trait's default bodies: retain returns Ok(()) and touches nothing,
\* mark_reused and start_new_cycle are empty.
DefaultRetain(s, keep, r) == s
DefaultMarkReused(r, k) == r
DefaultStartNewCycle(r) == r

\* A sweep that consulted keep_set only.
GcRetainIgnoresReused(s, keep, r) == [k \in Keys |-> IF k \in keep THEN s[k] ELSE None]

\* A GC-capable engine: the sweep keeps keep_set and the reused-key set.
GcRetain(s, keep, r) == [k \in Keys |-> IF k \in keep \cup r THEN s[k] ELSE None]

\* A mark_reused that recorded nothing.
GcMarkReusedDropped(r, k) == r

\* mark_reused(key): the key joins the reused-key set.
GcMarkReused(r, k) == r \cup {k}

\* A start_new_cycle that carried the reused-key set over.
GcStartNewCycleKeeps(r) == r

\* start_new_cycle: the reused-key set of the new cycle is empty.
GcStartNewCycle(r) == {}

\* Deferred reclamation: the default start_new_cycle triggers none, a
\* GC-capable engine hands the previous generation to its background task.
DefaultDeferSweep(sw) == sw
GcDeferSweep(sw) == "pending"

\* A wait_for_gc_finish that returned whatever the background task was doing.
WaitReturnsAtOnce(gc, sw) == TRUE

\* wait_for_gc_finish may return: the default body returns at once, a
\* GC-capable engine returns on the completion signal of its background task.
WaitMayReturn(gc, sw) == gc => sw = "idle"

\* The &mut self operations are not entered while a caller is blocked inside
\* the &self call wait_for_gc_finish.
Get(k) ==
    /\ last' = Op("get", k, {}, GetValue(store, k))
    /\ UNCHANGED <<gcCapable, store, reused, cycle, marked, markedPrev>>
    /\ UNCHANGED <<written, sweep, waiting, stats>>
    /\ UNCHANGED ipcVars

Contains(k) ==
    /\ last' = Op("contains", k, {}, IF ContainsKey(store, k) THEN "true" ELSE "false")
    /\ UNCHANGED <<gcCapable, store, reused, cycle, marked, markedPrev>>
    /\ UNCHANGED <<written, sweep, waiting, stats>>
    /\ UNCHANGED ipcVars

Put(k, v) ==
    /\ ~waiting
    /\ store' = PutValue(store, k, v)
    /\ last' = [op |-> "put", key |-> k, keep |-> {}, before |-> store,
                ret |-> IF ContainsKey(store, k) THEN "false" ELSE "true", val |-> v]
    /\ written' = written \cup {k}
    /\ UNCHANGED <<gcCapable, reused, cycle, marked, markedPrev>>
    /\ UNCHANGED <<sweep, waiting, stats>>
    /\ UNCHANGED ipcVars

PutBatch(batch, failAt) ==
    /\ ~waiting
    /\ LET r == DefaultPutBatch(store, batch, failAt)
       IN /\ store' = r.store
          /\ last' = [op |-> "put_batch", key |-> None, keep |-> {}, before |-> store,
                      ret |-> r.ret, batch |-> batch, failAt |-> failAt]
          /\ written' = written \cup {batch[i][1] : i \in 1..r.applied}
    /\ UNCHANGED <<gcCapable, reused, cycle, marked, markedPrev>>
    /\ UNCHANGED <<sweep, waiting, stats>>
    /\ UNCHANGED ipcVars

Merge(k, v, combined) ==
    /\ ~waiting
    /\ store' = MergeValue(store, k, v, combined)
    /\ last' = Op("merge", k, {}, "ok")
    /\ written' = written \cup {k}
    /\ UNCHANGED <<gcCapable, reused, cycle, marked, markedPrev>>
    /\ UNCHANGED <<sweep, waiting, stats>>
    /\ UNCHANGED ipcVars

Delete(k) ==
    /\ ~waiting
    /\ store' = DeleteKey(store, k)
    /\ last' = Op("delete", k, {}, GetValue(store, k))
    /\ UNCHANGED <<gcCapable, reused, cycle, marked, markedPrev>>
    /\ UNCHANGED <<written, sweep, waiting, stats>>
    /\ UNCHANGED ipcVars

MarkReused(k) ==
    /\ ~waiting
    /\ reused' = IF gcCapable THEN GcMarkReused(reused, k) ELSE DefaultMarkReused(reused, k)
    /\ marked' = marked \cup {k}
    /\ last' = Op("mark_reused", k, {}, None)
    /\ UNCHANGED <<gcCapable, store, cycle, markedPrev>>
    /\ UNCHANGED <<written, sweep, waiting, stats>>
    /\ UNCHANGED ipcVars

StartNewCycle ==
    /\ ~waiting
    /\ cycle < MaxCycles
    /\ cycle' = cycle + 1
    /\ reused' = IF gcCapable THEN GcStartNewCycle(reused) ELSE DefaultStartNewCycle(reused)
    /\ sweep' = IF gcCapable THEN GcDeferSweep(sweep) ELSE DefaultDeferSweep(sweep)
    /\ markedPrev' = markedPrev \cup marked
    /\ marked' = {}
    /\ last' = Op("start_new_cycle", None, {}, None)
    /\ UNCHANGED <<gcCapable, store>>
    /\ UNCHANGED <<written, waiting, stats>>
    /\ UNCHANGED ipcVars

Retain(keep) ==
    /\ ~waiting
    /\ store' = IF gcCapable THEN GcRetain(store, keep, reused)
                ELSE DefaultRetain(store, keep, reused)
    /\ last' = Op("retain", None, keep, "ok")
    /\ UNCHANGED <<gcCapable, reused, cycle, marked, markedPrev>>
    /\ UNCHANGED <<written, sweep, waiting, stats>>
    /\ UNCHANGED ipcVars

\* The background task takes up the deferred reclamation.
SweepStart ==
    /\ sweep = "pending"
    /\ sweep' = "running"
    /\ UNCHANGED <<gcCapable, store, reused, cycle, marked, markedPrev, last>>
    /\ UNCHANGED <<written, waiting, stats>>
    /\ UNCHANGED ipcVars

\* The background task is done and signals completion.
SweepFinish ==
    /\ sweep = "running"
    /\ sweep' = "idle"
    /\ UNCHANGED <<gcCapable, store, reused, cycle, marked, markedPrev, last>>
    /\ UNCHANGED <<written, waiting, stats>>
    /\ UNCHANGED ipcVars

\* wait_for_gc_finish is called.
WaitForGcFinish ==
    /\ ~waiting
    /\ waiting' = TRUE
    /\ UNCHANGED <<gcCapable, store, reused, cycle, marked, markedPrev, last>>
    /\ UNCHANGED <<written, sweep, stats>>
    /\ UNCHANGED ipcVars

\* wait_for_gc_finish returns.
WaitReturn ==
    /\ waiting
    /\ WaitMayReturn(gcCapable, sweep)
    /\ waiting' = FALSE
    /\ last' = Op("wait_for_gc_finish", None, {}, None)
    /\ UNCHANGED <<gcCapable, store, reused, cycle, marked, markedPrev>>
    /\ UNCHANGED <<written, sweep, stats>>
    /\ UNCHANGED ipcVars

\* ------------------------------------------------------ stats accounting
StatsFields == {"key_bytes", "value_bytes", "reused_keys_bytes"}
StatsValues == [StatsFields -> 0..MaxUsize]
StatsDefault == [f \in StatsFields |-> 0]

\* usize arithmetic: the sum or difference, and whether it left the range.
InUsize(x) == \A f \in StatsFields : x[f] \in 0..MaxUsize
WrapUsize(x) == [f \in StatsFields |-> x[f] % (MaxUsize + 1)]

\* impl Add for StorageBackendStats.
StatsAdd(a, b) == [f \in StatsFields |-> a[f] + b[f]]

\* A Sub that took every field's subtrahend from key_bytes.
StatsSubOneField(a, b) == [f \in StatsFields |-> a[f] - b["key_bytes"]]

\* impl Sub for StorageBackendStats.
StatsSub(a, b) == [f \in StatsFields |-> a[f] - b[f]]

\* No computation in progress.
StatsIdle == [a |-> StatsDefault, b |-> StatsDefault, acc |-> StatsDefault,
              ops |-> <<>>, checks |-> FALSE, panicked |-> FALSE,
              prev |-> StatsDefault, arg |-> <<>>]

\* acc = acc (+|-) b. A result outside usize panics in a build with overflow
\* checks and wraps in a build without.
\* prev and arg are history: the value before the operation and what the
\* operation was given.
StatsStepOn(op, r, arg) ==
    /\ ~stats.panicked
    /\ Len(stats.ops) < 2
    /\ LET done == [stats EXCEPT !.ops = Append(@, op), !.prev = stats.acc, !.arg = arg]
       IN stats' = IF InUsize(r) THEN [done EXCEPT !.acc = r]
                   ELSE IF stats.checks THEN [done EXCEPT !.panicked = TRUE]
                   ELSE [done EXCEPT !.acc = WrapUsize(r)]
    /\ UNCHANGED <<gcCapable, store, reused, cycle, marked, markedPrev, last>>
    /\ UNCHANGED <<written, sweep, waiting>>
    /\ UNCHANGED ipcVars

StatsStep(op, r) == StatsStepOn(op, r, <<stats.b>>)

AddStats == StatsStep("add", StatsAdd(stats.acc, stats.b))
SubStats == StatsStep("sub", StatsSub(stats.acc, stats.b))

\* A fold that added the running total in twice.
RECURSIVE StatsFoldTwice(_, _)
StatsFoldTwice(acc, seq) ==
    IF seq = <<>> THEN acc
    ELSE StatsFoldTwice(StatsAdd(StatsAdd(acc, Head(seq)), acc), Tail(seq))

\* impl Sum: iter.fold(StorageBackendStats::default(), |acc, cur| acc + cur).
RECURSIVE StatsFold(_, _)
StatsFold(acc, seq) ==
    IF seq = <<>> THEN acc ELSE StatsFold(StatsAdd(acc, Head(seq)), Tail(seq))
StatsSum(seq) == StatsFold(StatsDefault, seq)

\* The sum of an iterator over the first n of the values at hand; every
\* partial sum is at most the total, so the fold leaves usize when the
\* total does.
SumStats(n) ==
    LET seq == SubSeq(<<stats.acc, stats.b, stats.a>>, 1, n)
    IN StatsStepOn("sum", StatsSum(seq), seq)

\* mem::size_of::<EntryHash>(), in the unit the narrowed usize counts in.
EntryHashSize == 1

\* list.capacity() of a HashSet<EntryHash> that is in memory: its buckets
\* fit the address space.
Capacities == {c \in 0..MaxUsize : c * EntryHashSize <= MaxUsize}

\* update_reused_keys: self.reused_keys_bytes = list.capacity() * size_of.
ReusedKeysBytes(old, capacity) == capacity * EntryHashSize

UpdateReusedKeys(capacity) ==
    StatsStepOn("update_reused_keys",
                [stats.acc EXCEPT !.reused_keys_bytes = ReusedKeysBytes(@, capacity)],
                <<capacity>>)

InitBackend ==
    /\ gcCapable \in BOOLEAN
    /\ store = EmptyStore
    /\ reused = {}
    /\ cycle = 0
    /\ marked = {}
    /\ markedPrev = {}
    /\ last = NoOp
    /\ written = {}
    /\ sweep = "idle"
    /\ waiting = FALSE
    /\ stats = StatsIdle

\* The GC extension at work: reads, puts and deletes, the cycle operations,
\* the background task and wait_for_gc_finish.
NextGC ==
    \/ \E k \in Keys : Get(k)
    \/ \E k \in Keys : Contains(k)
    \/ \E k \in Keys, v \in Values : Put(k, v)
    \/ \E k \in Keys : Delete(k)
    \/ \E k \in Keys : MarkReused(k)
    \/ StartNewCycle
    \/ \E keep \in SUBSET Keys : Retain(keep)
    \/ SweepStart
    \/ SweepFinish
    \/ WaitForGcFinish
    \/ WaitReturn

\* Single and batched writes with the reads that observe them.
NextBatch ==
    \/ \E k \in Keys : Get(k)
    \/ \E k \in Keys : Contains(k)
    \/ \E k \in Keys, v \in Values : Put(k, v)
    \/ \E batch \in Batches : \E failAt \in 0..Len(batch) : PutBatch(batch, failAt)
    \/ \E k \in Keys : Delete(k)

\* Every operation of the contract that reads or writes entries, with the
\* cycle operations.
NextContract ==
    \/ \E k \in Keys : Get(k)
    \/ \E k \in Keys : Contains(k)
    \/ \E k \in Keys, v \in Values : Put(k, v)
    \/ \E batch \in ShortBatches : \E failAt \in 0..Len(batch) : PutBatch(batch, failAt)
    \/ \E k \in Keys, v \in Values, combined \in Values : Merge(k, v, combined)
    \/ \E k \in Keys : Delete(k)
    \/ \E k \in Keys : MarkReused(k)
    \/ StartNewCycle
    \/ \E keep \in SUBSET Keys : Retain(keep)


\* ================================================================== IPC
\* -------------------------------------------------------------- messages
\* enum ContextRequest; id is history only (the call that sent it, 0 for a
\* ShutdownCall) and is read by no action.
GetEntryReq(h, id) == [kind |-> "GetEntry", hash |-> h, id |-> id]
ContainsEntryReq(h, id) == [kind |-> "ContainsEntry", hash |-> h, id |-> id]
ShutdownCallReq == [kind |-> "ShutdownCall", hash |-> None, id |-> 0]

\* enum ContextResponse; Result<_, String> is ok/val, id is history only.
Response(kind, ok, val, id) == [kind |-> kind, ok |-> ok, val |-> val, id |-> id]

\* A match whose ContainsEntry arm answered with GetEntryResponse.
ResponseKindDrift(k) ==
    IF k = "ContainsEntry" THEN "GetEntryResponse" ELSE
    IF k = "GetEntry" THEN "GetEntryResponse" ELSE "ShutdownResult"

\* The response kind process_context_requests sends for a request kind.
ResponseKind(k) ==
    IF k = "GetEntry" THEN "GetEntryResponse" ELSE
    IF k = "ContainsEntry" THEN "ContainsEntryResponse" ELSE "ShutdownResult"

\* The response kind get_entry / contains_entry accepts.
ExpectedKind(k) ==
    IF k = "GetEntry" THEN "GetEntryResponse" ELSE "ContainsEntryResponse"

\* index.find_entry_bytes(&hash) / index.contains(&hash) on the writer's own
\* backend; fault: the engine reports an error, sent as Err(String).
BoolStr(b) == IF b THEN "true" ELSE "false"
\* ------------------------------------- reads during GC (SpecReadGC)
\* A find_entry_bytes that read the entry stored next to the one asked for.
ResolveNeighbour(s, r, fault) ==
    IF fault THEN [ok |-> FALSE, val |-> "Context error"]
    ELSE IF r.kind = "GetEntry"
         THEN [ok |-> TRUE, val |-> GetValue(s, CHOOSE k \in Keys : k # r.hash)]
         ELSE [ok |-> TRUE, val |-> BoolStr(ContainsKey(s, r.hash))]

Resolve(s, r, fault) ==
    IF fault THEN [ok |-> FALSE, val |-> "Context error"]
    ELSE IF r.kind = "GetEntry"
         THEN [ok |-> TRUE, val |-> GetValue(s, r.hash)]
         ELSE [ok |-> TRUE, val |-> BoolStr(ContainsKey(s, r.hash))]

\* try_receive(Some(TIMEOUT), Some(IO_TIMEOUT)): the receive attempts an
\* unanswered call makes before it gives up.
MaxAttempts == TIMEOUT_SECS \div IO_TIMEOUT_SECS

WorkerEnded(c) == worker[c] \in {"done", "failed", "panicked"}
InCall(t) == tpc[t] \in {"send", "recv"}
Busy(c) == \E t \in Threads : InCall(t) /\ tconn[t] = c

NoResult == [id |-> 0, kind |-> None, hash |-> None, status |-> "none",
             val |-> None, rid |-> 0]
Pending(id, kind, h) ==
    [id |-> id, kind |-> kind, hash |-> h, status |-> "pending", val |-> None, rid |-> 0]
Returned(t, status, val, rid) ==
    [result[t] EXCEPT !.status = status, !.val = val, !.rid = rid]

\* ------------------------------------------------------------- listener
\* A reader's try_connect reaches the endpoint and handle_incoming_connections
\* gets Ok(server): it spawns the connection's worker thread.
Accept(c) ==
    /\ listening
    /\ client[c] = "none"
    /\ worker[c] = "none"
    /\ client' = [client EXCEPT ![c] = "open"]
    /\ worker' = [worker EXCEPT ![c] = "running"]
    /\ bornAfter' = [bornAfter EXCEPT ![c] = shutdownSeen]
    /\ UNCHANGED <<indexOk, listening, shutdownSeen>>
    /\ UNCHANGED <<backendVars, dial, chanVars, threadVars>>
    /\ UNCHANGED <<shared, borrow, shutSent, outstanding, ncalls>>

\* An accept loop that was left on the first Err.
AcceptFailStops(c) ==
    /\ listening
    /\ client[c] = "none"
    /\ client' = [client EXCEPT ![c] = "refused"]
    /\ listening' = FALSE
    /\ UNCHANGED <<indexOk, worker, shutdownSeen, bornAfter>>
    /\ UNCHANGED <<backendVars, dial, chanVars, threadVars>>
    /\ UNCHANGED <<shared, borrow, shutSent, outstanding, ncalls>>

\* handle_incoming_connections, Err(err): the accept of a reader's connection
\* fails; the error is logged and the loop goes on to the next accept.
AcceptFail(c) ==
    /\ listening
    /\ client[c] = "none"
    /\ client' = [client EXCEPT ![c] = "refused"]
    /\ UNCHANGED <<backendVars, dial, serverVars, chanVars, threadVars>>
    /\ UNCHANGED <<shared, borrow, shutSent, outstanding, ncalls>>

\* --------------------------------------------------------------- worker
\* A ShutdownCall that also ended the accept loop.
ShutdownListeningStops(l) == FALSE

\* What a ShutdownCall does to the listener (nothing) and to the workers
\* (the one that received it leaves its loop).
ShutdownListening(l) == l

ShutdownWorkers(w, c) == [w EXCEPT ![c] = "done"]

\* A send that succeeded on a connection the reader has closed.
SendOkAfterClose(c) == TRUE

\* Whether the worker's send of a response reaches the channel.
SendOk(c) == client[c] # "closed"

\* One turn of the loop of process_context_requests: receive a request,
\* resolve it, send the response.
ServeEntry(c, r, fault) ==
    IF ~indexOk
    THEN /\ worker' = [worker EXCEPT ![c] = "panicked"]
         /\ UNCHANGED respQ
    ELSE IF ~SendOk(c)
    THEN /\ worker' = [worker EXCEPT ![c] = "failed"]
         /\ UNCHANGED respQ
    ELSE LET res == Resolve(store, r, fault)
             kind == ResponseKind(r.kind)
         IN /\ respQ' = [respQ EXCEPT ![c] = Append(@, Response(kind, res.ok, res.val, r.id))]
            /\ UNCHANGED worker

ServeShutdown(c) ==
    /\ IF SendOk(c)
       THEN /\ respQ' = [respQ EXCEPT ![c] = Append(@, Response("ShutdownResult", TRUE, None, 0))]
       ELSE UNCHANGED respQ
    /\ worker' = ShutdownWorkers(worker, c)

ServerServe(c) ==
    /\ worker[c] = "running"
    /\ reqQ[c] # <<>>
    /\ LET r == Head(reqQ[c])
       IN /\ reqQ' = [reqQ EXCEPT ![c] = Tail(@)]
          /\ IF r.kind = "ShutdownCall"
             THEN /\ ServeShutdown(c)
                  /\ listening' = ShutdownListening(listening)
                  /\ shutdownSeen' = TRUE
             ELSE /\ \E fault \in BOOLEAN : ServeEntry(c, r, fault)
                  /\ UNCHANGED <<listening, shutdownSeen>>
    /\ UNCHANGED <<indexOk, bornAfter>>
    /\ UNCHANGED <<backendVars, dial, clientVars, threadVars>>

\* io.rx.receive()? on a connection the reader has closed.
ServerRecvFail(c) ==
    /\ worker[c] = "running"
    /\ reqQ[c] = <<>>
    /\ client[c] = "closed"
    /\ worker' = [worker EXCEPT ![c] = "failed"]
    /\ UNCHANGED <<indexOk, listening, shutdownSeen, bornAfter>>
    /\ UNCHANGED <<backendVars, dial, chanVars, clientVars, threadVars>>

\* --------------------------------------------------------------- reader
\* get_entry / contains_entry, entry: self.io.borrow_mut() reads the borrow
\* flag and panics unless it is UNUSED (0).
Call(t, c, kind, h) ==
    /\ tpc[t] = "idle"
    /\ client[c] = "open"
    /\ ncalls < MaxCalls
    /\ ncalls' = ncalls + 1
    /\ tconn' = [tconn EXCEPT ![t] = c]
    /\ result' = [result EXCEPT ![t] = Pending(ncalls + 1, kind, h)]
    /\ attempts' = [attempts EXCEPT ![t] = 0]
    /\ tpc' = [tpc EXCEPT ![t] = IF borrow[c] = 0 THEN "send" ELSE "panicked"]
    /\ UNCHANGED <<backendVars, dial, serverVars, chanVars>>
    /\ UNCHANGED <<shared, client, borrow, shutSent, outstanding>>

\* Dropping the RefMut at return (any path): the flag goes up by one.
Release(c) == [borrow EXCEPT ![c] = @ + 1]

\* borrow_mut writes the flag (-1), then io.tx.send(&request)?.
Send(t) ==
    LET c == tconn[t]
    IN /\ tpc[t] = "send"
       /\ IF WorkerEnded(c)
          THEN /\ borrow' = [borrow EXCEPT ![c] = 0]
               /\ result' = [result EXCEPT ![t] = Returned(t, "ipc_error", "send", 0)]
               /\ tpc' = [tpc EXCEPT ![t] = "idle"]
               /\ UNCHANGED <<reqQ, outstanding>>
          ELSE /\ borrow' = [borrow EXCEPT ![c] = -1]
               /\ reqQ' = [reqQ EXCEPT ![c] = Append(@,
                              IF result[t].kind = "GetEntry"
                              THEN GetEntryReq(result[t].hash, result[t].id)
                              ELSE ContainsEntryReq(result[t].hash, result[t].id))]
               /\ outstanding' = [outstanding EXCEPT ![c] = @ \cup {result[t].id}]
               /\ tpc' = [tpc EXCEPT ![t] = "recv"]
               /\ UNCHANGED result
       /\ UNCHANGED <<backendVars, dial, serverVars, respQ, tconn, attempts>>
       /\ UNCHANGED <<shared, client, shutSent, ncalls>>

\* A match that unwrapped the Result of the response without looking at it.
OutcomeOfDropsErr(call, m) ==
    IF m.kind = ExpectedKind(call.kind) THEN "ok" ELSE "unexpected"

\* A match that took either entry response for the one it waits on.
OutcomeOfAnyEntry(call, m) ==
    IF m.kind \in {"GetEntryResponse", "ContainsEntryResponse"}
    THEN IF m.ok THEN "ok" ELSE "context_error"
    ELSE "unexpected"

\* The match on the received message.
OutcomeOf(call, m) ==
    IF m.kind = ExpectedKind(call.kind)
    THEN IF m.ok THEN "ok" ELSE "context_error"
    ELSE "unexpected"

\* try_receive returns a message.
RecvMessage(t) ==
    LET c == tconn[t]
    IN /\ tpc[t] = "recv"
       /\ respQ[c] # <<>>
       /\ LET m == Head(respQ[c])
          IN /\ result' = [result EXCEPT ![t] =
                    Returned(t, OutcomeOf(result[t], m),
                             IF m.kind = ExpectedKind(result[t].kind) THEN m.val ELSE m.kind,
                             m.id)]
             /\ outstanding' = [outstanding EXCEPT ![c] = @ \ {m.id}]
       /\ respQ' = [respQ EXCEPT ![c] = Tail(@)]
       /\ borrow' = Release(c)
       /\ tpc' = [tpc EXCEPT ![t] = "idle"]
       /\ UNCHANGED <<backendVars, dial, serverVars, reqQ, tconn, attempts>>
       /\ UNCHANGED <<shared, client, shutSent, ncalls>>

\* What the call does when a receive attempt ends without a message: count
\* it, and return the timeout error once the deadline is used up.
AfterTimeout(t, c) ==
    IF attempts[t] + 1 >= MaxAttempts
    THEN /\ result' = [result EXCEPT ![t] = Returned(t, "ipc_error", "timeout", 0)]
         /\ borrow' = Release(c)
         /\ tpc' = [tpc EXCEPT ![t] = "idle"]
         /\ attempts' = [attempts EXCEPT ![t] = 0]
    ELSE /\ attempts' = [attempts EXCEPT ![t] = @ + 1]
         /\ UNCHANGED <<result, borrow, tpc>>

\* A call that swallowed the timeout and went on waiting.
RecvTimeoutRetries(t) ==
    LET c == tconn[t]
    IN /\ tpc[t] = "recv"
       /\ respQ[c] = <<>>
       /\ ~WorkerEnded(c)
       /\ attempts' = [attempts EXCEPT ![t] = 0]
       /\ UNCHANGED <<backendVars, dial, serverVars, chanVars, tpc, tconn, result>>
       /\ UNCHANGED <<shared, client, borrow, shutSent, outstanding, ncalls>>

\* A receive attempt times out: nothing has arrived.
RecvTimeout(t) ==
    LET c == tconn[t]
    IN /\ tpc[t] = "recv"
       /\ respQ[c] = <<>>
       /\ ~WorkerEnded(c)
       /\ AfterTimeout(t, c)
       /\ UNCHANGED <<backendVars, dial, serverVars, chanVars, tconn>>
       /\ UNCHANGED <<shared, client, shutSent, outstanding, ncalls>>

\* try_receive on a connection whose worker is gone: the transport error.
RecvDisconnected(t) ==
    LET c == tconn[t]
    IN /\ tpc[t] = "recv"
       /\ respQ[c] = <<>>
       /\ WorkerEnded(c)
       /\ result' = [result EXCEPT ![t] = Returned(t, "ipc_error", "disconnected", 0)]
       /\ borrow' = Release(c)
       /\ tpc' = [tpc EXCEPT ![t] = "idle"]
       /\ UNCHANGED <<backendVars, dial, serverVars, chanVars, tconn, attempts>>
       /\ UNCHANGED <<shared, client, shutSent, outstanding, ncalls>>

\* The reader's end sends ContextRequest::ShutdownCall.
PeerShutdown(c) ==
    /\ client[c] = "open"
    /\ ~shutSent[c]
    /\ ~WorkerEnded(c)
    /\ shutSent' = [shutSent EXCEPT ![c] = TRUE]
    /\ reqQ' = [reqQ EXCEPT ![c] = Append(@, ShutdownCallReq)]
    /\ UNCHANGED <<backendVars, dial, serverVars, respQ, threadVars>>
    /\ UNCHANGED <<shared, client, borrow, outstanding, ncalls>>

\* The reader drops its client: the connection closes.
Disconnect(c) ==
    /\ client[c] = "open"
    /\ ~Busy(c)
    /\ client' = [client EXCEPT ![c] = "closed"]
    /\ UNCHANGED <<backendVars, dial, serverVars, chanVars, threadVars>>
    /\ UNCHANGED <<shared, borrow, shutSent, outstanding, ncalls>>

\* ---------------------------------------------------- read-only proxy
\* A ReadonlyIpcBackend put that passed the entry on to the writer's store.
ProxyPutForwards(s, k, v) == [s EXCEPT ![k] = v]

\* impl KeyValueStoreBackend for ReadonlyIpcBackend: put, delete, merge and
\* write_batch are `Ok(())` and nothing else ("This context is readonly").
ProxyPutStore(s, k, v) == s

\* The record of a call on the proxy of connection c; at: the get/contains
\* calls started before it.
ProxyOp(o, c, k) ==
    [op |-> o, key |-> k, keep |-> {}, before |-> store, ret |-> "ok",
     conn |-> c, at |-> ncalls]

ProxyPut(c, k, v) ==
    /\ client[c] = "open"
    /\ store' = ProxyPutStore(store, k, v)
    /\ last' = ProxyOp("proxy_put", c, k)
    /\ UNCHANGED <<gcCapable, reused, cycle, marked, markedPrev>>
    /\ UNCHANGED <<written, sweep, waiting, stats>>
    /\ UNCHANGED ipcVars

ProxyDelete(c, k) ==
    /\ client[c] = "open"
    /\ last' = ProxyOp("proxy_delete", c, k)
    /\ UNCHANGED <<gcCapable, store, reused, cycle, marked, markedPrev>>
    /\ UNCHANGED <<written, sweep, waiting, stats>>
    /\ UNCHANGED ipcVars

ProxyMerge(c, k, v) ==
    /\ client[c] = "open"
    /\ last' = ProxyOp("proxy_merge", c, k)
    /\ UNCHANGED <<gcCapable, store, reused, cycle, marked, markedPrev>>
    /\ UNCHANGED <<written, sweep, waiting, stats>>
    /\ UNCHANGED ipcVars

ProxyWriteBatch(c, batch) ==
    /\ client[c] = "open"
    /\ last' = ProxyOp("proxy_write_batch", c, None)
    /\ UNCHANGED <<gcCapable, store, reused, cycle, marked, markedPrev>>
    /\ UNCHANGED <<written, sweep, waiting, stats>>
    /\ UNCHANGED ipcVars

\* --------------------------------------------------------- try_connect
\* `for _ in 0..5`: the existence checks of one try_connect call.
ExistenceChecks == 5

\* No try_connect call has been made. exists: the endpoint (socket path) is
\* there; iter: the loop index; checks, sleeps, connects: history counters;
\* found: the last check saw the endpoint; handshake: connect() went through;
\* appeared: history, the endpoint has been there at some time.
NoDial == [pc |-> "idle", caller |-> None, exists |-> FALSE, iter |-> 0,
           checks |-> 0, sleeps |-> 0, connects |-> 0, found |-> FALSE,
           handshake |-> FALSE, appeared |-> FALSE]

DialFrame == UNCHANGED <<backendVars, serverVars, chanVars, clientVars, threadVars>>

\* The writer's listener binds the endpoint.
EndpointAppears ==
    /\ ~dial.exists
    /\ dial' = [dial EXCEPT !.exists = TRUE, !.appeared = TRUE]
    /\ DialFrame

\* The endpoint goes away again (the writer stops or restarts).
EndpointVanishes ==
    /\ dial.exists
    /\ dial' = [dial EXCEPT !.exists = FALSE]
    /\ DialFrame

\* IpcContextClient::try_connect is called, by the reader itself or by
\* ReadonlyIpcBackend::connect.
TryConnect(caller) ==
    /\ dial.pc = "idle"
    /\ dial' = [dial EXCEPT !.pc = "check", !.caller = caller]
    /\ DialFrame

\* A loop that went on sleeping although the endpoint was there.
AfterCheckNoBreak(found) == "sleep"

\* `if socket_path.as_ref().exists() { break; }`
AfterCheck(found) == IF found THEN "connect" ELSE "sleep"

\* The loop head and the existence check of one iteration; the range 0..5
\* used up, the loop is left.
CheckExists ==
    /\ dial.pc = "check"
    /\ dial' = IF dial.iter >= ExistenceChecks
               THEN [dial EXCEPT !.pc = "connect"]
               ELSE [dial EXCEPT !.pc = AfterCheck(dial.exists),
                                 !.checks = @ + 1, !.found = dial.exists]
    /\ DialFrame

\* std::thread::sleep(Duration::from_secs(1)), then the next iteration.
SleepOneSecond ==
    /\ dial.pc = "sleep"
    /\ dial' = [dial EXCEPT !.pc = "check", !.sleeps = @ + 1, !.iter = @ + 1]
    /\ DialFrame

\* IpcClient::new(socket_path).connect()?: Err when the endpoint is not
\* there or the handshake fails, and `?` returns it; otherwise Ok(Self).
\* ReadonlyIpcBackend::connect calls expect() on the result.
ConnectOutcome(caller, ok) ==
    IF ok THEN "client"
    ELSE IF caller = "connect" THEN "panicked" ELSE "error"

ConnectOnce(handshake) ==
    /\ dial.pc = "connect"
    /\ dial' = [dial EXCEPT !.pc = ConnectOutcome(dial.caller, dial.exists /\ handshake),
                            !.connects = @ + 1,
                            !.handshake = dial.exists /\ handshake]
    /\ DialFrame

DialStep == CheckExists \/ SleepOneSecond \/ \E hs \in BOOLEAN : ConnectOnce(hs)

NextDial ==
    \/ EndpointAppears
    \/ EndpointVanishes
    \/ \E caller \in {"try_connect", "connect"} : TryConnect(caller)
    \/ CheckExists
    \/ SleepOneSecond
    \/ \E hs \in BOOLEAN : ConnectOnce(hs)

\* ------------------------------------- serving next to GC (SpecServeGC)
\* A proxy retain that ran the sweep on the writer's store.
ProxyRetainForwards(c, keep) ==
    /\ client[c] = "open"
    /\ store' = GcRetain(store, keep, reused)
    /\ last' = [ProxyOp("proxy_retain", c, None) EXCEPT !.keep = keep]
    /\ UNCHANGED <<gcCapable, reused, cycle, marked, markedPrev>>
    /\ UNCHANGED <<written, sweep, waiting, stats>>
    /\ UNCHANGED ipcVars

\* retain(&self, _predicate) of the proxy: `Ok(())` ("This context is
\* readonly"); keep: the hashes the predicate holds of.
ProxyRetain(c, keep) ==
    /\ client[c] = "open"
    /\ last' = [ProxyOp("proxy_retain", c, None) EXCEPT !.keep = keep]
    /\ UNCHANGED <<gcCapable, store, reused, cycle, marked, markedPrev>>
    /\ UNCHANGED <<written, sweep, waiting, stats>>
    /\ UNCHANGED ipcVars

\* --------------------------------------------------------- specifications
InitIpcIdle ==
    /\ indexOk \in BOOLEAN
    /\ listening = TRUE
    /\ worker = [c \in Conns |-> "none"]
    /\ shutdownSeen = FALSE
    /\ bornAfter = [c \in Conns |-> FALSE]
    /\ reqQ = [c \in Conns |-> <<>>]
    /\ respQ = [c \in Conns |-> <<>>]
    /\ client = [c \in Conns |-> "none"]
    /\ borrow = [c \in Conns |-> 0]
    /\ shutSent = [c \in Conns |-> FALSE]
    /\ outstanding = [c \in Conns |-> {}]
    /\ ncalls = 0
    /\ tpc = [t \in Threads |-> "idle"]
    /\ tconn = [t \in Threads |-> 1]
    /\ attempts = [t \in Threads |-> 0]
    /\ result = [t \in Threads |-> NoResult]
    /\ dial = NoDial

\* The writer's store as the readers find it: any store.
InitWriter ==
    /\ gcCapable = TRUE
    /\ store \in ContentStores
    /\ reused = {}
    /\ cycle = 0
    /\ marked = {}
    /\ markedPrev = {}
    /\ last = NoOp
    /\ written = StoredKeys(store)
    /\ sweep = "idle"
    /\ waiting = FALSE
    /\ stats = StatsIdle

\* The steps of the connections CS and of the caller threads TS.
NextIpc(CS, TS) ==
    \/ \E c \in CS : Accept(c)
    \/ \E c \in CS : AcceptFail(c)
    \/ \E c \in CS : ServerServe(c)
    \/ \E c \in CS : ServerRecvFail(c)
    \/ \E t \in TS, c \in CS, h \in Keys : Call(t, c, "GetEntry", h)
    \/ \E t \in TS, c \in CS, h \in Keys : Call(t, c, "ContainsEntry", h)
    \/ \E t \in TS : Send(t)
    \/ \E t \in TS : RecvMessage(t)
    \/ \E t \in TS : RecvTimeout(t)
    \/ \E t \in TS : RecvDisconnected(t)
    \/ \E c \in CS : PeerShutdown(c)
    \/ \E c \in CS : Disconnect(c)

\* Several reader connections, each client used by one thread at a time.
Init == InitWriter /\ InitIpcIdle /\ shared = FALSE
Next == NextIpc(Conns, {1})
Spec == Init /\ [][Next]_vars

\* One client shared by the reader's caller threads (unsafe impl Sync).
InitShared == InitWriter /\ InitIpcIdle /\ shared = TRUE
NextShared == NextIpc({1}, Threads)
SpecShared == InitShared /\ [][NextShared]_vars

\* One reader thread on one connection, with the progress the scheduler and
\* the receive timer give a thread that is inside a call.
ThreadStep(t) == Send(t) \/ RecvMessage(t) \/ RecvTimeout(t) \/ RecvDisconnected(t)
NextLive == NextIpc({1}, {1})
SpecLive == Init /\ [][NextLive]_vars /\ WF_vars(ThreadStep(1))

\* One reader thread on one connection, any scheduling.
SpecOne == Init /\ [][NextLive]_vars

\* The reader's ReadonlyIpcBackend: reads through its client, writes ignored.
NextProxy ==
    \/ NextIpc({1}, {1})
    \/ \E k \in Keys, v \in Values : ProxyPut(1, k, v)
    \/ \E k \in Keys : ProxyDelete(1, k)
    \/ \E k \in Keys, v \in Values : ProxyMerge(1, k, v)
    \/ \E batch \in ShortBatches : ProxyWriteBatch(1, batch)
    \/ \E keep \in SUBSET Keys : ProxyRetain(1, keep)
SpecProxy == Init /\ [][NextProxy]_vars

\* The writer's backend on its own: no reader is connected.
InitGC == InitBackend /\ InitIpcIdle /\ indexOk = TRUE /\ shared = FALSE
SpecGC == InitGC /\ [][NextGC]_vars

\* The same, with the progress of the background task and of a caller whose
\* wait may return.
SpecSweep ==
    /\ InitGC
    /\ [][NextGC]_vars
    /\ WF_vars(SweepStart) /\ WF_vars(SweepFinish) /\ WF_vars(WaitReturn)

\* The writer's backend under every operation of the contract.
SpecContract == InitGC /\ [][NextContract]_vars

\* The writer's backend under single and batched writes.
SpecBatch == InitGC /\ [][NextBatch]_vars

\* StorageBackendStats arithmetic on its own: any two operands, either build.
InitStats ==
    /\ gcCapable = FALSE /\ store = EmptyStore /\ reused = {} /\ cycle = 0
    /\ marked = {} /\ markedPrev = {} /\ last = NoOp /\ written = {}
    /\ sweep = "idle" /\ waiting = FALSE
    /\ \E a \in StatsValues, b \in StatsValues, checks \in BOOLEAN :
           stats = [a |-> a, b |-> b, acc |-> a, ops |-> <<>>,
                    checks |-> checks, panicked |-> FALSE,
                    prev |-> a, arg |-> <<>>]
    /\ InitIpcIdle /\ indexOk = TRUE /\ shared = FALSE
NextStats == AddStats \/ SubStats
SpecStats == InitStats /\ [][NextStats]_vars

\* Every operation of StorageBackendStats, on any two operands.
NextStatsOps ==
    \/ AddStats
    \/ SubStats
    \/ \E n \in 0..3 : SumStats(n)
    \/ \E capacity \in Capacities : UpdateReusedKeys(capacity)
SpecStatsOps == InitStats /\ [][NextStatsOps]_vars

\* Engines that opt out of garbage collection: a backend that keeps the
\* trait's default bodies, and the read-only proxy of a connected reader.
InitOptOut == InitGC /\ gcCapable = FALSE
NextOptOut ==
    \/ \E k \in Keys : Get(k)
    \/ \E k \in Keys, v \in Values : Put(k, v)
    \/ \E k \in Keys : Delete(k)
    \/ \E k \in Keys : MarkReused(k)
    \/ StartNewCycle
    \/ \E keep \in SUBSET Keys : Retain(keep)
    \/ WaitForGcFinish
    \/ WaitReturn
    \/ Accept(1)
    \/ \E keep \in SUBSET Keys : ProxyRetain(1, keep)
SpecOptOut == InitOptOut /\ [][NextOptOut]_vars

\* A reader that connects while the writer may still be starting; the
\* scheduler lets the calling thread run.
InitDial == InitGC /\ gcCapable = FALSE
SpecDial == InitDial /\ [][NextDial]_vars /\ WF_vars(DialStep)

\* ================================================================ claims
\* ------------------------------------------------- backend claims (SpecGC)
RetainDone == last.op = "retain"
SweptCandidates == StoredKeys(last.before) \ last.keep

\* C1: retain(keep_set) never removes a key of keep_set: every such key that
\* was stored before the call is stored with the same value after it, for
\* every store, keep_set and reused-key set, on either kind of engine.
C1_RetainKeepsKeepSet ==
    RetainDone =>
        \A k \in last.keep : last.before[k] # None => store[k] = last.before[k]

C1_Witness ==
    /\ RetainDone
    /\ reused = {}
    /\ \E k \in last.keep : last.before[k] # None /\ store[k] = last.before[k]
    /\ \E k \in Keys : last.before[k] # None /\ store[k] = None

\* C2: on a GC-capable backend, after retain(keep_set) the stored keys are
\* exactly (keys stored before) \cap (keep_set \cup keys marked reused since
\* the last start_new_cycle), and the surviving entries keep their values.
C2_RetainExact ==
    (gcCapable /\ RetainDone) =>
        /\ StoredKeys(store) = StoredKeys(last.before) \cap (last.keep \cup marked)
        /\ \A k \in StoredKeys(store) : store[k] = last.before[k]

C2_Witness ==
    /\ gcCapable
    /\ RetainDone
    /\ \E k \in StoredKeys(last.before) : k \in marked \ last.keep /\ store[k] # None
    /\ \E k \in StoredKeys(last.before) : store[k] = None

\* C3 as stated (any engine): a stored key outside keep survives retain when
\* mark_reused was called on it in the current cycle, and is removed when not.
C3_Original ==
    RetainDone =>
        \A k \in SweptCandidates :
            /\ k \in marked => store[k] = last.before[k]
            /\ k \notin marked => store[k] = None

\* C3 (amended): on a GC-capable backend, a stored key outside keep survives
\* retain when mark_reused was called on it in the current cycle, and is
\* removed when it was not.
C3_MarkReusedProtects ==
    gcCapable => C3_Original

C3_Witness ==
    /\ gcCapable
    /\ RetainDone
    /\ \E k \in SweptCandidates : k \in marked /\ store[k] = last.before[k]
    /\ \E k \in SweptCandidates : k \notin marked /\ store[k] = None

\* C4 as stated (any engine): start_new_cycle leaves the reused-key set
\* empty, and a key marked reused only in an earlier cycle is removed by a
\* retain whose keep does not hold it.
C4_Original ==
    /\ last.op = "start_new_cycle" => reused = {}
    /\ RetainDone =>
           \A k \in (SweptCandidates \cap markedPrev) \ marked : store[k] = None

\* C4 (amended): on a GC-capable backend, start_new_cycle leaves the
\* reused-key set empty, and a key marked reused only in an earlier cycle is
\* removed by a retain whose keep does not hold it.
C4_NewCycleClearsReused ==
    gcCapable => C4_Original

C4_Witness ==
    /\ gcCapable
    /\ RetainDone
    /\ cycle >= 1
    /\ \E k \in (SweptCandidates \cap markedPrev) \ marked : store[k] = None

\* ----------------------------------------------------------- IPC claims
\* What the writer's store answers to a call.
StoreAnswer(kind, h) ==
    IF kind = "GetEntry" THEN GetValue(store, h) ELSE BoolStr(ContainsKey(store, h))

\* C5: a get_entry(h) / contains_entry(h) that completes successfully returns
\* what the writer's store holds for h: Some(v) with the stored bytes or
\* None, true or false.
C5_RoundTrip ==
    \A t \in Threads :
        result[t].status = "ok" => result[t].val = StoreAnswer(result[t].kind, result[t].hash)

\* The response kind the protocol pairs with each request kind.
MatchingKind(k) ==
    CASE k = "GetEntry" -> "GetEntryResponse"
      [] k = "ContainsEntry" -> "ContainsEntryResponse"
      [] k = "ShutdownCall" -> "ShutdownResult"

\* Steps of a connection's worker, read off the channels.
Received(c) == Len(reqQ'[c]) < Len(reqQ[c])
SentResponse(c) == Len(respQ'[c]) > Len(respQ[c])
SentMatching(c) ==
    /\ Len(respQ'[c]) = Len(respQ[c]) + 1
    /\ SubSeq(respQ'[c], 1, Len(respQ[c])) = respQ[c]
    /\ respQ'[c][Len(respQ'[c])].kind = MatchingKind(Head(reqQ[c]).kind)
    /\ respQ'[c][Len(respQ'[c])].id = Head(reqQ[c]).id
EndedUnanswered(c) ==
    /\ respQ'[c] = respQ[c]
    /\ worker[c] = "running"
    /\ worker'[c] \in {"done", "failed", "panicked"}
    /\ ~SendOk(c) \/ ~indexOk

\* C6 as stated: the worker sends exactly one response per request it
\* receives, in order and of the matching kind, none without a request and
\* none after ShutdownResult.
C6_Original ==
    [][\A c \in Conns :
        /\ Received(c) => SentMatching(c)
        /\ SentResponse(c) => Received(c)
        /\ worker[c] = "done" => ~SentResponse(c)]_vars

\* C6 (amended): the worker sends at most one response per request it
\* receives, in order and of the matching kind, none without a request and
\* none after ShutdownResult; a request stays unanswered only when its
\* response cannot be sent (the reader has closed the connection) or its
\* resolution panics, and the worker ends there.
C6_OneResponsePerRequest ==
    [][\A c \in Conns :
        /\ Received(c) => (SentMatching(c) \/ EndedUnanswered(c))
        /\ SentResponse(c) => Received(c)
        /\ worker[c] = "done" => ~SentResponse(c)]_vars

C6_Witness ==
    \E c \in Conns :
        /\ worker[c] = "done"
        /\ Len(respQ[c]) = 2
        /\ respQ[c][1].kind = "ContainsEntryResponse"
        /\ respQ[c][2].kind = "ShutdownResult"

\* C7: at most one get/contains request is outstanding on a connection: the
\* client sends none while an earlier one has not been answered.
C7_OneOutstanding ==
    \A c \in Conns : Cardinality(outstanding[c]) <= 1

\* C8: callers sharing one client are mutually exclusive between their send
\* and their receive, and each receives the response to its own request.
C8_MutualExclusion ==
    /\ \A c \in Conns :
           Cardinality({t \in Threads : tpc[t] = "recv" /\ tconn[t] = c}) <= 1
    /\ \A t \in Threads :
           result[t].status \in {"ok", "context_error"} => result[t].rid = result[t].id

\* C9: a ShutdownCall ends only the worker that received it, after the
\* ShutdownResult is sent when it can be; the listener keeps accepting, the
\* other workers are untouched, and a worker serving after a shutdown
\* answers an entry request with what the store holds.
ShutdownServed(c) ==
    Received(c) /\ Head(reqQ[c]).kind = "ShutdownCall"
EntryServedAfterShutdown(c) ==
    /\ shutdownSeen
    /\ Received(c)
    /\ Head(reqQ[c]).kind # "ShutdownCall"
    /\ indexOk
    /\ SendOk(c)
C9_ShutdownIsLocal ==
    [][/\ listening'
       /\ \A c \in Conns :
            /\ ShutdownServed(c) =>
                 /\ worker'[c] = "done"
                 /\ SendOk(c) => SentMatching(c)
                 /\ \A d \in Conns \ {c} :
                      worker'[d] = worker[d] /\ reqQ'[d] = reqQ[d] /\ respQ'[d] = respQ[d]
            /\ EntryServedAfterShutdown(c) =>
                 /\ worker'[c] = "running"
                 /\ SentMatching(c)
                 /\ LET m == respQ'[c][Len(respQ'[c])]
                        r == Head(reqQ[c])
                    IN m.ok => m.val = StoreAnswer(r.kind, r.hash)]_vars

C9_Witness ==
    \E c, d \in Conns :
        /\ c # d
        /\ worker[c] = "done"
        /\ bornAfter[d]
        /\ worker[d] = "running"
        /\ tconn[1] = d
        /\ result[1].status = "ok"
        /\ result[1].val = "v1"

\* C10: every call on an established connection returns; no call makes more
\* than TIMEOUT / IO_TIMEOUT receive attempts, and an unanswered one ends
\* with the timeout error.
C10_CallReturns ==
    /\ [](attempts[1] < MaxAttempts)
    /\ [](result[1].val = "timeout" => result[1].status = "ipc_error")
    /\ (InCall(1) ~> ~InCall(1))

C10_Witness ==
    /\ result[1].status = "ipc_error"
    /\ result[1].val = "timeout"
    /\ worker[tconn[1]] = "running"
    /\ reqQ[tconn[1]] # <<>>

\* ------------------------------------------------ read-only proxy claims
ProxyWriteOps == {"proxy_put", "proxy_delete", "proxy_merge", "proxy_write_batch"}

\* C11: put, delete, merge and write_batch on a read-only proxy return
\* success and change nothing: the writer's store, its GC state and the
\* proxy's client and channels are the same after the call as before it, and
\* a later get/contains through the proxy that receives the response to its
\* own request answers with what the untouched store holds.
C11_ProxyWritesAreNoOps ==
    /\ [][(last'.op \in ProxyWriteOps /\ last' # last) =>
            /\ last'.ret = "ok"
            /\ store' = store
            /\ <<gcCapable, reused, cycle, marked, markedPrev, written, sweep>>' =
               <<gcCapable, reused, cycle, marked, markedPrev, written, sweep>>
            /\ ipcVars' = ipcVars]_vars
    /\ [](\A t \in Threads :
            (/\ last.op \in ProxyWriteOps
             /\ result[t].id > last.at
             /\ result[t].status = "ok"
             /\ result[t].rid = result[t].id)
            => result[t].val = StoreAnswer(result[t].kind, result[t].hash))

C11_Witness ==
    /\ last.op = "proxy_put"
    /\ last.key = "h1"
    /\ store["h1"] = None
    /\ result[1].id > last.at
    /\ result[1].kind = "GetEntry"
    /\ result[1].hash = "h1"
    /\ result[1].status = "ok"
    /\ result[1].rid = result[1].id
    /\ result[1].val = None

\* ------------------------------------------ contract claims (SpecContract)
\* C12: a key that no put, put_batch or merge has ever written is absent:
\* the store holds nothing under it, get on it returns None and contains on
\* it returns false, whatever was done to other keys and to the cycle.
C12_NeverWrittenAbsent ==
    /\ \A k \in Keys \ written : store[k] = None
    /\ (last.op = "get" /\ last.key \notin written) => last.ret = None
    /\ (last.op = "contains" /\ last.key \notin written) => last.ret = "false"

C12_Witness ==
    /\ last.op = "get"
    /\ last.key = "h2"
    /\ last.ret = None
    /\ written = {"h1"}
    /\ store["h1"] = None
    /\ cycle >= 1
    /\ marked # {}

\* C13: on a mutable backend, get(k) right after put(k, v) returns Some(v),
\* whether k was absent or held another value before the put.
C13_PutGetRoundTrip ==
    /\ [](last.op = "put" => GetValue(store, last.key) = last.val)
    /\ [][(last.op = "put" /\ last'.op = "get" /\ last'.key = last.key)
            => last'.ret = last.val]_vars

C13_Witness ==
    /\ last.op = "put"
    /\ last.ret = "false"
    /\ last.before[last.key] \notin {None, last.val}
    /\ GetValue(store, last.key) = last.val

\* ------------------------------------------------ stats claims (SpecStats)
NoOverflow(a, b) == \A f \in StatsFields : a[f] + b[f] <= MaxUsize

\* C14: for stats values a and b whose field sums stay within usize,
\* (a + b) - b is computed without a panic and equals a field by field.
C14_AddSubCancels ==
    (NoOverflow(stats.a, stats.b) /\ stats.ops = <<"add", "sub">>) =>
        /\ ~stats.panicked
        /\ \A f \in StatsFields : stats.acc[f] = stats.a[f]

C14_Witness ==
    /\ stats.ops = <<"add", "sub">>
    /\ ~stats.panicked
    /\ stats.a = [key_bytes |-> 1, value_bytes |-> 2, reused_keys_bytes |-> 0]
    /\ stats.b = [key_bytes |-> 2, value_bytes |-> 1, reused_keys_bytes |-> 3]
    /\ stats.acc = stats.a

\* ------------------------------------------------- reader outcome claims
\* Steps of a reader's call, read off the thread and its channel.
Returns(t) == InCall(t) /\ tpc'[t] = "idle"
TookMessage(t) == tpc[t] = "recv" /\ Len(respQ'[tconn[t]]) < Len(respQ[tconn[t]])
TakenKindMatches(t) == Head(respQ[tconn[t]]).kind = MatchingKind(result[t].kind)

\* C15: a call's outcome is one of three separate kinds and says which: a
\* successful answer only for a received response of its kind carrying Ok,
\* with that payload; ContextError for one carrying Err; IpcError whenever
\* the call ends without a message (send failure, timeout, disconnect). No
\* failure is returned as a successful value.
C15_OutcomesDistinct ==
    [][\A t \in Threads : Returns(t) =>
        /\ result'[t].status \in {"ok", "context_error", "ipc_error", "unexpected"}
        /\ result'[t].status = "ok" <=>
             (TookMessage(t) /\ TakenKindMatches(t) /\ Head(respQ[tconn[t]]).ok)
        /\ result'[t].status = "ok" => result'[t].val = Head(respQ[tconn[t]]).val
        /\ result'[t].status = "context_error" <=>
             (TookMessage(t) /\ TakenKindMatches(t) /\ ~Head(respQ[tconn[t]]).ok)
        /\ result'[t].status = "ipc_error" <=> ~TookMessage(t)
        /\ result'[t].status = "ipc_error" =>
             result'[t].val \in {"send", "timeout", "disconnected"}]_vars

C15_Witness ==
    /\ result[1].status = "context_error"
    /\ result[1].val = "Context error"
    /\ result[1].rid = result[1].id
    /\ result[1].id = 2

\* ------------------------------------------------ batch claims (SpecBatch)
\* The entries of a batch whose put was made and succeeded.
AppliedEntries(batch, failAt) ==
    IF failAt = 0 THEN batch ELSE SubSeq(batch, 1, failAt - 1)
\* The position of the last entry for key k, 0 when there is none.
LastEntryFor(entries, k) ==
    LET idx == {i \in 1..Len(entries) : entries[i][1] = k}
    IN IF idx = {} THEN 0 ELSE CHOOSE i \in idx : \A j \in idx : j <= i

\* C16: the default put_batch is the sequence of its puts in list order, cut
\* at the first put that fails: it returns Ok when none fails and that error
\* otherwise; each key holds the value of the last entry for it that comes
\* before the failing one, and what it held before the call when there is no
\* such entry.
C16_PutBatchSequential ==
    last.op = "put_batch" =>
        LET done == AppliedEntries(last.batch, last.failAt)
        IN /\ last.ret = IF last.failAt = 0 THEN "ok" ELSE "error"
           /\ \A k \in Keys :
                store[k] = IF LastEntryFor(done, k) = 0 THEN last.before[k]
                           ELSE done[LastEntryFor(done, k)][2]

C16_Witness ==
    /\ last.op = "put_batch"
    /\ Len(last.batch) = 2
    /\ last.failAt = 2
    /\ last.ret = "error"
    /\ last.batch[1][1] # last.batch[2][1]
    /\ last.before[last.batch[1][1]] # last.batch[1][2]
    /\ store[last.batch[1][1]] = last.batch[1][2]
    /\ store[last.batch[2][1]] = None

\* C17: a received response that is not of the kind the call waits on ends
\* the call at once with the UnexpectedMessage error naming what came; it is
\* neither skipped nor turned into a value.
C17_UnexpectedMessage ==
    [][\A t \in Threads : (TookMessage(t) /\ ~TakenKindMatches(t)) =>
        /\ tpc'[t] = "idle"
        /\ result'[t].status = "unexpected"
        /\ result'[t].val = Head(respQ[tconn[t]]).kind]_vars

C17_Witness ==
    /\ result[1].kind = "GetEntry"
    /\ result[1].status = "unexpected"
    /\ result[1].val = "ContainsEntryResponse"

\* ------------------------------------------------------- listener claims
\* C18: the accept loop of handle_incoming_connections is never left,
\* whatever accepts and workers do: a failed accept changes no worker, a
\* successful one starts the worker of its connection and touches no other.
C18_ListenerNeverStops ==
    /\ []listening
    /\ [][\A c \in Conns :
            /\ (client[c] = "none" /\ client'[c] = "refused") => worker' = worker
            /\ (worker[c] = "none" /\ worker'[c] # "none") =>
                 /\ worker'[c] = "running"
                 /\ client'[c] = "open"
                 /\ \A d \in Conns \ {c} : worker'[d] = worker[d]]_vars

C18_Witness ==
    \E c, d \in Conns :
        /\ c # d
        /\ client[c] = "refused"
        /\ worker[c] = "none"
        /\ worker[d] = "panicked"
        /\ listening

\* A step of connection c's worker once the reader has closed the connection.
StepAfterDisconnect(c) ==
    /\ client[c] = "closed"
    /\ worker[c] = "running"
    /\ Received(c) \/ worker'[c] # worker[c]
OthersUntouched(c) ==
    /\ listening'
    /\ \A d \in Conns \ {c} :
         worker'[d] = worker[d] /\ reqQ'[d] = reqQ[d] /\ respQ'[d] = respQ[d]
HandlesNoMore(c) ==
    WorkerEnded(c) => (~Received(c) /\ ~SentResponse(c) /\ worker'[c] = worker[c])

\* C19 as stated: after the reader has disconnected, the next step of its
\* worker ends it with the transport error and without a response; an ended
\* worker handles nothing more; the listener and the other connections are
\* untouched.
C19_Original ==
    [][\A c \in Conns :
        /\ StepAfterDisconnect(c) =>
             /\ worker'[c] = "failed"
             /\ respQ'[c] = respQ[c]
             /\ OthersUntouched(c)
        /\ HandlesNoMore(c)]_vars

\* C19 (amended): after the reader has disconnected, the next step of its
\* worker ends it without a response: with the transport error on a failing
\* receive or send of an entry response, with Ok when the failing send is
\* that of ShutdownResult, with a panic when the request it received cannot
\* be resolved; an ended worker handles nothing more; the listener and the
\* other connections are untouched.
C19_DisconnectEndsWorker ==
    [][\A c \in Conns :
        /\ StepAfterDisconnect(c) =>
             /\ worker'[c] =
                  IF Received(c) /\ Head(reqQ[c]).kind = "ShutdownCall" THEN "done"
                  ELSE IF Received(c) /\ ~indexOk THEN "panicked"
                  ELSE "failed"
             /\ respQ'[c] = respQ[c]
             /\ OthersUntouched(c)
        /\ HandlesNoMore(c)]_vars

C19_Witness ==
    \E c, d \in Conns :
        /\ c # d
        /\ client[c] = "closed"
        /\ worker[c] = "failed"
        /\ reqQ[c] # <<>>
        /\ worker[d] = "running"
        /\ tconn[1] = d
        /\ result[1].status = "ok"
        /\ result[1].id = 2

\* ------------------------------------------------ sweep claims (SpecSweep)
\* C20: wait_for_gc_finish returns only when no deferred reclamation is
\* pending or running, and with a background task that makes progress every
\* call of it returns.
C20_WaitForGcFinish ==
    /\ [][(waiting /\ ~waiting') => (sweep = "idle" /\ sweep' = "idle")]_vars
    /\ [](last.op = "wait_for_gc_finish" => sweep = "idle")
    /\ (waiting ~> ~waiting)

C20_Witness ==
    /\ gcCapable
    /\ last.op = "wait_for_gc_finish"
    /\ cycle = MaxCycles
    /\ sweep = "idle"
    /\ ~waiting

\* ------------------------------------------ reads during GC (SpecReadGC)
\* The writer collects (mark_reused, start_new_cycle with its deferred sweep,
\* retain) and reads its own store, while a reader's get_entry and
\* contains_entry calls are served from the same store.
NextReadGC ==
    \/ Accept(1)
    \/ \E h \in Keys : Call(1, 1, "GetEntry", h)
    \/ \E h \in Keys : Call(1, 1, "ContainsEntry", h)
    \/ Send(1)
    \/ ServerServe(1)
    \/ RecvMessage(1)
    \/ \E k \in Keys : Get(k)
    \/ \E k \in Keys : MarkReused(k)
    \/ StartNewCycle
    \/ \E keep \in SUBSET Keys : Retain(keep)
    \/ SweepStart
    \/ SweepFinish
InitReadGC == Init /\ indexOk = TRUE
SpecReadGC == InitReadGC /\ [][NextReadGC]_vars

\* A get answered in this step: by the writer's own get, or by the worker of
\* connection 1 for the reader.
LocalGet == last' # last /\ last'.op = "get"
ServedGet ==
    /\ Received(1) /\ SentResponse(1)
    /\ Head(reqQ[1]).kind = "GetEntry"
    /\ respQ'[1][Len(respQ'[1])].ok
GotKey == IF LocalGet THEN last'.key ELSE Head(reqQ[1]).hash
GotValue == IF LocalGet THEN last'.ret ELSE respQ'[1][Len(respQ'[1])].val
Protected(k) == k \in last.keep \cup reused

DialDone == dial.pc \in {"client", "error", "panicked"}

\* C22: try_connect checks for the endpoint at most 5 times, with one sleep
\* of a second after each check that did not find it, and makes no further
\* check once one has found it; it then makes exactly one connection attempt
\* and returns: the client when the endpoint is there and the handshake goes
\* through, the connection error otherwise, and so whenever the endpoint
\* never appeared (ReadonlyIpcBackend::connect turns that error into a
\* panic). Every call terminates.
C22_TryConnect ==
    /\ [](dial.checks <= ExistenceChecks /\ dial.connects <= 1)
    /\ [](dial.pc \in {"check", "sleep"} =>
            /\ dial.connects = 0
            /\ dial.sleeps = dial.iter
            /\ dial.checks = IF dial.pc = "sleep" THEN dial.sleeps + 1 ELSE dial.sleeps)
    /\ [](dial.pc = "connect" \/ DialDone =>
            IF dial.found THEN dial.checks = dial.sleeps + 1
            ELSE dial.checks = ExistenceChecks /\ dial.sleeps = ExistenceChecks)
    /\ [](DialDone =>
            /\ dial.connects = 1
            /\ dial.pc = "client" <=> dial.handshake
            /\ ~dial.appeared => ~dial.handshake
            /\ (~dial.handshake /\ dial.caller = "try_connect") => dial.pc = "error")
    /\ (dial.pc # "idle" ~> DialDone)

C22_Witness ==
    /\ dial.pc = "error"
    /\ dial.caller = "try_connect"
    /\ dial.checks = ExistenceChecks
    /\ ~dial.appeared

\* ------------------------------------------- opting out of GC (SpecOptOut)
OptOutOps == {"retain", "mark_reused", "start_new_cycle", "wait_for_gc_finish",
              "proxy_retain"}

\* C23: on an engine that keeps the default bodies, and on the read-only
\* proxy, retain, mark_reused, start_new_cycle and wait_for_gc_finish are
\* no-ops: retain returns Ok, none of them changes a stored entry, the
\* reused-key set or the background task, and a call of wait_for_gc_finish
\* can return at once.
C23_OptOutNoOps ==
    /\ [][(~gcCapable /\ last'.op \in OptOutOps) =>
            /\ store' = store
            /\ reused' = reused
            /\ sweep' = sweep
            /\ written' = written
            /\ last'.op \in {"retain", "proxy_retain"} => last'.ret = "ok"]_vars
    /\ []((~gcCapable /\ waiting) => ENABLED WaitReturn)

C23_Witness ==
    /\ ~gcCapable
    /\ last.op = "retain"
    /\ last.keep = {}
    /\ StoredKeys(store) = Keys
    /\ marked # {}
    /\ cycle >= 1
    /\ client[1] = "open"

\* ------------------------------------------- stats claims (SpecStatsOps)
\* The last operation of the computation and its exact result, field by
\* field, in the integers.
StatsOp == IF stats.ops = <<>> THEN None ELSE stats.ops[Len(stats.ops)]
RECURSIVE FieldTotal(_, _)
FieldTotal(seq, f) == IF seq = <<>> THEN 0 ELSE Head(seq)[f] + FieldTotal(Tail(seq), f)
Exact(f) ==
    CASE StatsOp = "add" -> stats.prev[f] + stats.arg[1][f]
      [] StatsOp = "sub" -> stats.prev[f] - stats.arg[1][f]
      [] StatsOp = "sum" -> FieldTotal(stats.arg, f)
SubtrahendFits ==
    StatsOp = "sub" => \A f \in StatsFields : stats.arg[1][f] <= stats.prev[f]
SumFits ==
    StatsOp \in {"add", "sum"} => \A f \in StatsFields : Exact(f) <= MaxUsize
IsExact == ~stats.panicked /\ \A f \in StatsFields : stats.acc[f] = Exact(f) /\ stats.acc[f] >= 0
TrapsOrWraps ==
    IF stats.checks THEN stats.panicked
    ELSE ~stats.panicked /\ \A f \in StatsFields : stats.acc[f] = Exact(f) % (MaxUsize + 1)

\* C24 as stated: every value add, sub, add_assign, sub_assign or sum
\* produces has non-negative fields equal to the exact result whenever each
\* subtrahend field is at most the minuend's; a subtraction outside that
\* traps or wraps modulo 2^w.
C24_Original ==
    StatsOp \in {"add", "sub", "sum"} =>
        IF SubtrahendFits THEN IsExact ELSE TrapsOrWraps

\* C24 (amended): every value add, sub, add_assign, sub_assign or sum
\* produces has non-negative fields equal to the exact result whenever each
\* subtrahend field is at most the minuend's and each field's sum is within
\* the machine width; a subtraction or an addition outside that traps or
\* wraps modulo 2^w.
C24_ExactWithinWidth ==
    StatsOp \in {"add", "sub", "sum"} =>
        IF SubtrahendFits /\ SumFits THEN IsExact ELSE TrapsOrWraps

C24_Witness ==
    /\ stats.ops = <<"sub", "sum">>
    /\ ~stats.panicked
    /\ Len(stats.arg) = 3
    /\ stats.a = [key_bytes |-> 1, value_bytes |-> 1, reused_keys_bytes |-> 1]
    /\ stats.b = [key_bytes |-> 1, value_bytes |-> 0, reused_keys_bytes |-> 1]
    /\ stats.acc = [key_bytes |-> 2, value_bytes |-> 2, reused_keys_bytes |-> 2]

\* ------------------------------------- serving next to GC (SpecServeGC)
\* The writer collects while the worker of a connection serves the reader's
\* requests, ShutdownCall included, and the reader calls its proxy.
NextServeGC ==
    \/ Accept(1)
    \/ \E h \in Keys : Call(1, 1, "GetEntry", h)
    \/ \E h \in Keys : Call(1, 1, "ContainsEntry", h)
    \/ Send(1)
    \/ ServerServe(1)
    \/ RecvMessage(1)
    \/ PeerShutdown(1)
    \/ \E k \in Keys : MarkReused(k)
    \/ StartNewCycle
    \/ \E keep \in SUBSET Keys : Retain(keep)
    \/ ProxyRetain(1, {})
SpecServeGC == InitReadGC /\ [][NextServeGC]_vars

\* Steps of the reader's side and of its worker, and the writer's state.
WorkerStep(c) == Received(c) \/ SentResponse(c) \/ worker'[c] # worker[c]
ProxyCall == last' # last /\ last'.op \in ProxyWriteOps \cup {"proxy_retain"}
WriterState == <<store, reused, cycle, marked, markedPrev, sweep, written>>
EntryAnswers == Values \cup {None, "true", "false", "Context error"}

\* C25: the steps of the server workers and the calls on the read-only
\* proxy, retain included, leave the writer's store and its GC cycle state
\* (cycle, reused-key set, background task) as they are; the requests in
\* flight are GetEntry, ContainsEntry and ShutdownCall only, and a response
\* carries an entry's bytes, a boolean or an error text, never cycle state.
C25_ServingLeavesWriter ==
    /\ [][((\E c \in Conns : WorkerStep(c)) \/ ProxyCall) =>
            WriterState' = WriterState]_vars
    /\ [](\A c \in Conns :
            /\ \A i \in 1..Len(reqQ[c]) :
                 reqQ[c][i].kind \in {"GetEntry", "ContainsEntry", "ShutdownCall"}
            /\ \A i \in 1..Len(respQ[c]) :
                 /\ respQ[c][i].kind \in
                      {"GetEntryResponse", "ContainsEntryResponse", "ShutdownResult"}
                 /\ respQ[c][i].val \in EntryAnswers)

C25_Witness ==
    /\ last.op = "proxy_retain"
    /\ last.keep = {}
    /\ StoredKeys(store) # {}
    /\ reused # {}
    /\ cycle >= 1
    /\ worker[1] = "done"
    /\ result[1].status = "ok"
    /\ result[1].val = ContentOf(result[1].hash)

\* C26: update_reused_keys(list) increases reused_keys_bytes: after the call
\* the field is at least what it was before, and key_bytes and value_bytes
\* are what they were.
C26_UpdateIncreases ==
    (StatsOp = "update_reused_keys" /\ ~stats.panicked) =>
        /\ stats.acc.reused_keys_bytes >= stats.prev.reused_keys_bytes
        /\ stats.acc.key_bytes = stats.prev.key_bytes
        /\ stats.acc.value_bytes = stats.prev.value_bytes

\* ------------------------------------------- call pairing claims (SpecOne)
\* C27: a successful result of get_entry(h) / contains_entry(h) is the
\* answer to the request that very call sent: over any sequence of calls on
\* a connection, one that timed out included, no call returns the response
\* the worker produced for an earlier request.
C27_AnswersOwnRequest ==
    \A t \in Threads :
        result[t].status = "ok" => result[t].rid = result[t].id

\* ------------------------------------------ worker loop claims (SpecOne)
EntryRequest(c) == Received(c) /\ Head(reqQ[c]).kind \in {"GetEntry", "ContainsEntry"}
SentErr(c) == SentResponse(c) /\ ~respQ'[c][Len(respQ'[c])].ok
LeavesLoop(c) == worker[c] = "running" /\ worker'[c] # "running"

\* C28: a failure of the engine while a GetEntry or ContainsEntry request is
\* resolved does not end the worker: it sends the failure as Err(String) in
\* the response kind that matches the request and stays in its loop; the
\* loop is left on a ShutdownCall or on a transport failure only.
C28_EngineFailureKeepsWorker ==
    [][\A c \in Conns :
        /\ (EntryRequest(c) /\ SentErr(c)) =>
             /\ SentMatching(c)
             /\ respQ'[c][Len(respQ'[c])].val = "Context error"
             /\ worker'[c] = "running"
        /\ LeavesLoop(c) =>
             \/ Received(c) /\ Head(reqQ[c]).kind = "ShutdownCall" /\ worker'[c] = "done"
             \/ client[c] = "closed" /\ worker'[c] = "failed"]_vars

====
